---------------------------- MODULE Spec2Model ----------------------------
(***************************************************************************)
(* AutoGreet: birthday / work-anniversary poster generation.               *)
(*                                                                         *)
(* The module models                                                       *)
(*   - image_tools.py  : ordinal, remove_background (retry loop with       *)
(*                       backoff), the face-aware cover crop;              *)
(*   - poster_engine.py: font loading, the text block, the two poster      *)
(*                       generators, step by step;                         *)
(*   - data_sources.py : parse_date / map_employee;                        *)
(*   - mailer.py       : send_birthday_emails / send_anniversary_emails;   *)
(*   - daily_run.py, app.py: the three callers of the generators           *)
(*                       (daily_run.main, page_send, page_preview).        *)
(*                                                                         *)
(* Text the program reads or transforms character by character (names and  *)
(* the other fields of a record, date strings) is modelled as sequences of *)
(* one-character strings; text it only builds (ordinal labels) as TLA+     *)
(* strings.                                                                *)
(***************************************************************************)
EXTENDS Integers, Sequences, FiniteSets, TLC

VARIABLES
    caller,             \* which entry point runs: daily_run / page_send / page_preview
    cfg,                \* template_config.json as loaded
    api_key,            \* secrets["withoutbg_api_key"] ("" when not configured)
    today,              \* date.today() / the chosen target date
    employees,          \* the mapped employee records (map_employee)
    retries,            \* remove_background's retries parameter
    idx,                \* the employee the loop (or the preview selectbox) is at
    pc,                 \* position in the program
    gtype,              \* poster type of the generator call in progress
    base,               \* the canvas of the generator call: its draw operations, in order
    photo,              \* the photo being downloaded / prepared (local of the call)
    sdk,                \* whether `from withoutbg import WithoutBg` succeeds
    mediapipe,          \* whether `import mediapipe, numpy` succeeds
    attempt,            \* remove_background's loop variable
    calls,              \* service calls made by the current remove_background call
    sleeps,             \* time.sleep durations of the current remove_background call
    rb_out,             \* how the current remove_background call ended
    face,               \* what _detect_face_center did for the current crop
    swallowed,          \* the photo-step exception the generator's except clause absorbed
    result,             \* how the generator call ended: image / raised
    error,              \* what raised out of the generator call
    gen_calls,          \* per employee and poster type: generator invocations so far
    birthday_posters,   \* birthday_posters of the runner (employee indices, in order)
    anniversary_posters,\* anniversary_posters of the runner
    log,                \* failures the runner reported (stderr / st.warning / st.error)
    emails,             \* the send_email calls (SMTP sessions) and their outcome, in order
    fin,                \* input of the pure function under check
    fout                \* its output

inputVars == << caller, cfg, api_key, today, employees, retries >>
envVars == << sdk, mediapipe >>
callVars == << gtype, base, photo, attempt, calls, sleeps, rb_out, face,
               swallowed, result, error >>
runVars == << idx, gen_calls, birthday_posters, anniversary_posters, log, emails >>
pureVars == << fin, fout >>

vars == << inputVars, envVars, callVars, runVars, pureVars, pc >>

-----------------------------------------------------------------------------
(* Bounds of the model *)

\* longest employee list
MaxEmployees == 2
\* largest argument of ordinal that is enumerated
MaxN == 130
\* largest photo / box side enumerated for the placement arithmetic
MaxDim == 5
\* largest retries argument of remove_background that is enumerated
MaxRetries == 4

-----------------------------------------------------------------------------
(* Small helpers *)

Max(a, b) == IF a >= b THEN a ELSE b
Min(a, b) == IF a <= b THEN a ELSE b

RECURSIVE Pow2(_)
Pow2(n) == IF n = 0 THEN 1 ELSE 2 * Pow2(n - 1)

\* The decimal digit d as text.
DigitStr(d) ==
    CASE d = 0 -> "0" [] d = 1 -> "1" [] d = 2 -> "2" [] d = 3 -> "3"
      [] d = 4 -> "4" [] d = 5 -> "5" [] d = 6 -> "6" [] d = 7 -> "7"
      [] d = 8 -> "8" [] d = 9 -> "9"

\* str(n) of a Python int: the decimal numeral, "-" first when negative.
RECURSIVE NatStr(_)
NatStr(n) == IF n < 10 THEN DigitStr(n) ELSE NatStr(n \div 10) \o DigitStr(n % 10)

IntStr(n) == IF n < 0 THEN "-" \o NatStr(-n) ELSE NatStr(n)

-----------------------------------------------------------------------------
(* image_tools.ordinal *)

\* Variant: the suffix from the last digit alone, 11..13 not excepted.
OrdinalNoTeens(n) ==
    IntStr(n) \o (CASE n % 10 = 1 -> "st" [] n % 10 = 2 -> "nd"
                    [] n % 10 = 3 -> "rd" [] OTHER -> "th")

\* Python's % with a positive modulus is the floor modulus, as TLA+'s.
ordinal(n) ==
    IF 11 <= (n % 100) /\ (n % 100) <= 13
    THEN IntStr(n) \o "th"
    ELSE IntStr(n) \o (CASE n % 10 = 1 -> "st" [] n % 10 = 2 -> "nd"
                         [] n % 10 = 3 -> "rd" [] OTHER -> "th")

-----------------------------------------------------------------------------
(* Text of the employee record: sequences of one-character strings *)

LowerLetters == << "a", "b", "c", "d", "e", "f", "g", "h", "i", "j", "k", "l", "m",
                   "n", "o", "p", "q", "r", "s", "t", "u", "v", "w", "x", "y", "z" >>
UpperLetters == << "A", "B", "C", "D", "E", "F", "G", "H", "I", "J", "K", "L", "M",
                   "N", "O", "P", "Q", "R", "S", "T", "U", "V", "W", "X", "Y", "Z" >>

IsLower(c) == \E k \in 1..26 : LowerLetters[k] = c
IsUpper(c) == \E k \in 1..26 : UpperLetters[k] = c
IsCased(c) == IsLower(c) \/ IsUpper(c)

ToUpper(c) ==
    IF IsLower(c) THEN UpperLetters[CHOOSE k \in 1..26 : LowerLetters[k] = c] ELSE c
ToLower(c) ==
    IF IsUpper(c) THEN LowerLetters[CHOOSE k \in 1..26 : UpperLetters[k] = c] ELSE c

\* str.upper()
upper(s) == [i \in 1..Len(s) |-> ToUpper(s[i])]

\* str.title() reads left to right: a cased character is made upper case
\* when the character before it is uncased (or there is none), lower case
\* otherwise; uncased characters stay.
RECURSIVE TitleFrom(_, _)
TitleFrom(s, previous_is_cased) ==
    IF Len(s) = 0 THEN << >>
    ELSE LET c == Head(s)
         IN  << IF ~IsCased(c) THEN c
                ELSE IF previous_is_cased THEN ToLower(c) ELSE ToUpper(c) >>
             \o TitleFrom(Tail(s), IsCased(c))

\* Variant: str.capitalize(), the first character upper, the rest lower.
capitalize(s) ==
    [i \in 1..Len(s) |-> IF i = 1 THEN ToUpper(s[i]) ELSE ToLower(s[i])]

title(s) == TitleFrom(s, FALSE)

-----------------------------------------------------------------------------
(* data_sources.parse_date on character sequences *)

\* A missing date (Python None): no calendar date has year 0.
None == [year |-> 0, month |-> 0, day |-> 0]

Digits == {"0", "1", "2", "3", "4", "5", "6", "7", "8", "9"}

DigitVal(c) ==
    CASE c = "0" -> 0 [] c = "1" -> 1 [] c = "2" -> 2 [] c = "3" -> 3
      [] c = "4" -> 4 [] c = "5" -> 5 [] c = "6" -> 6 [] c = "7" -> 7
      [] c = "8" -> 8 [] c = "9" -> 9

AllDigits(f) == \A i \in 1..Len(f) : f[i] \in Digits

RECURSIVE Number(_)
Number(f) ==
    IF Len(f) = 0 THEN 0
    ELSE 10 * Number(SubSeq(f, 1, Len(f) - 1)) + DigitVal(f[Len(f)])

\* str.strip() for the blank character.
RECURSIVE Strip(_)
Strip(s) ==
    IF Len(s) > 0 /\ s[1] = " " THEN Strip(Tail(s))
    ELSE IF Len(s) > 0 /\ s[Len(s)] = " " THEN Strip(SubSeq(s, 1, Len(s) - 1))
    ELSE s

\* The fields of s between occurrences of the separator.
RECURSIVE Fields(_, _)
Fields(s, sep) ==
    IF \E i \in 1..Len(s) : s[i] = sep
    THEN LET i == CHOOSE k \in 1..Len(s) :
                      s[k] = sep /\ \A j \in 1..(k - 1) : s[j] # sep
         IN  <<SubSeq(s, 1, i - 1)>> \o Fields(SubSeq(s, i + 1, Len(s)), sep)
    ELSE <<s>>

IsLeap(y) == (y % 4 = 0 /\ y % 100 # 0) \/ y % 400 = 0

DaysInMonth(y, m) ==
    IF m = 2 THEN (IF IsLeap(y) THEN 29 ELSE 28)
    ELSE IF m \in {4, 6, 9, 11} THEN 30 ELSE 31

\* strptime's %d: 1..31 in one or two digits; %m: 1..12 in one or two
\* digits; %Y: exactly four digits.  The datetime constructor then rejects
\* year 0 and a day the month does not have.
DayField(f) == Len(f) \in {1, 2} /\ AllDigits(f) /\ Number(f) \in 1..31
MonthField(f) == Len(f) \in {1, 2} /\ AllDigits(f) /\ Number(f) \in 1..12
YearField(f) == Len(f) = 4 /\ AllDigits(f)

\* datetime.strptime(s, fmt) for the three formats parse_date tries;
\* None stands for the ValueError.  yearFirst is the "%Y-%m-%d" order.
Strptime(s, sep, yearFirst) ==
    LET f == Fields(s, sep) IN
    IF Len(f) # 3 THEN None
    ELSE LET d == IF yearFirst THEN f[3] ELSE f[1]
             m == f[2]
             y == IF yearFirst THEN f[1] ELSE f[3]
         IN  IF /\ DayField(d) /\ MonthField(m) /\ YearField(y)
                /\ Number(y) >= 1
                /\ Number(d) <= DaysInMonth(Number(y), Number(m))
             THEN [year |-> Number(y), month |-> Number(m), day |-> Number(d)]
             ELSE None

parse_date(s) ==
    IF Len(s) = 0 THEN None
    ELSE LET t  == Strip(s)
             r1 == Strptime(t, "-", FALSE)
             r2 == Strptime(t, "-", TRUE)
             r3 == Strptime(t, "/", FALSE)
         IN  IF r1 # None THEN r1
             ELSE IF r2 # None THEN r2
             ELSE r3

\* data_sources.map_employee: the fields the runners and generators read.
map_employee(raw) ==
    [name        |-> raw.name,
     designation |-> raw.designation,
     vertical    |-> raw.vertical,
     department  |-> raw.department,
     location    |-> raw.location,
     dob       |-> parse_date(raw.dob),
     doj       |-> parse_date(raw.doj),
     photo_url |-> raw.photo_url,
     raw       |-> raw]

-----------------------------------------------------------------------------
(* Rounding of the float arithmetic *)

\* Python's round(x) for the float x computed for num/den (den > 0, num >= 0).
\* Away from a tie the nearest integer; at an exact tie the float product
\* may lie on either side of it (and round() itself goes to the even
\* neighbour), so both neighbours are outcomes.
RoundOutcomes(num, den) ==
    LET q == num \div den
        r == num % den
    IN  IF 2 * r = den THEN {q, q + 1}
        ELSE IF 2 * r < den THEN {q} ELSE {q + 1}

\* Python's int(h * 0.35): 0.35 is not a binary fraction, so where 35*h/100
\* is a whole number the float product may fall just below it.
TruncOutcomes(num, den) ==
    LET q == num \div den
    IN  IF num % den = 0 /\ q > 0 THEN {q - 1, q} ELSE {q}

-----------------------------------------------------------------------------
(* poster_engine._place_birthday_photo *)

\* max(bw / pw, bh / ph) as the fraction <<numerator, denominator>>.
CoverScale(bw, bh, pw, ph) ==
    IF bw * ph >= bh * pw THEN <<bw, pw>> ELSE <<bh, ph>>

\* scale = min(bw / photo.width, bh / photo.height), as a fraction.
ContainScale(bw, bh, pw, ph) ==
    IF bw * ph <= bh * pw THEN <<bw, pw>> ELSE <<bh, ph>>

\* Variant: the photo anchored at the top edge of the box.
PasteYTop(by, bh, new_h) == by

\* paste_y = by + bh - new_h
PasteY(by, bh, new_h) == by + bh - new_h

\* The rectangles _place_birthday_photo may paste a pw x ph photo into.
PlaceRects(box, pw, ph) ==
    LET sc == ContainScale(box.w, box.h, pw, ph) IN
    { [x |-> box.x, y |-> PasteY(box.y, box.h, nh), w |-> nw, h |-> nh] :
        nw \in RoundOutcomes(pw * sc[1], sc[2]),
        nh \in RoundOutcomes(ph * sc[1], sc[2]) }

-----------------------------------------------------------------------------
(* image_tools._face_aware_crop *)

\* (new_w, new_h) of the cover resize, lines 72-74.
ResizedSizes(tw, th, sw, sh) ==
    LET sc == CoverScale(tw, th, sw, sh) IN
    { <<nw, nh>> : nw \in RoundOutcomes(sw * sc[1], sc[2]),
                   nh \in RoundOutcomes(sh * sc[1], sc[2]) }

\* Fallback anchors, lines 82-83.
FallbackAnchors(new_w, new_h) ==
    { <<new_w \div 2, cy>> : cy \in TruncOutcomes(35 * new_h, 100) }

\* Variant: the origin clamped at 0 only.
CropLeftNoUpperClamp(cx, tw, new_w) == Max(0, cx - tw \div 2)

\* Clamped crop origin, lines 86-87.
CropLeft(cx, tw, new_w) == Max(0, Min(cx - tw \div 2, new_w - tw))
CropTop(cy, th, new_h) == Max(0, Min(cy - th \div 3, new_h - th))

\* Variant: the box given as (left, upper, width, height).
CropBoxAsSize(left, top, tw, th) ==
    [left |-> left, upper |-> top, right |-> tw, lower |-> th]

\* Line 89: the box handed to Image.crop, (left, upper, right, lower).
CropBox(left, top, tw, th) ==
    [left |-> left, upper |-> top, right |-> left + tw, lower |-> top + th]

\* Image.crop(box).size: the box's extent, whatever the image's own size.
CropSize(box) == << box.right - box.left, box.lower - box.upper >>

-----------------------------------------------------------------------------
(* Inputs: configuration, secrets, dates, employee records *)

Types == {"birthday", "anniversary"}

\* remove_background(image_bytes, api_key, retries=3)
DefaultRetries == 3

BirthdayBox == [x |-> 1, y |-> 1, w |-> 4, h |-> 4]
AnniversaryBox == [x |-> 0, y |-> 1, w |-> 2, h |-> 3]

\* One poster type's section of template_config.json: whether the template
\* file opens, and which of the layout entries are present.
Section(box, templ, hasBox, hasText) ==
    [template_ok |-> templ, has_photo_box |-> hasBox,
     has_text_block |-> hasText, photo_box |-> box,
     text_block |-> [x |-> 60, y |-> 700]]

GoodBirthday == Section(BirthdayBox, TRUE, TRUE, TRUE)
GoodAnniversary == Section(AnniversaryBox, TRUE, TRUE, TRUE)

AllRecipients ==
    [birthday    |-> [to |-> <<"hr@corp">>, cc |-> <<"ceo@corp">>],
     anniversary |-> [to |-> <<"hr@corp">>, cc |-> << >>]]

NoBirthdayRecipients ==
    [birthday    |-> [to |-> << >>, cc |-> <<"ceo@corp">>],
     anniversary |-> [to |-> <<"hr@corp">>, cc |-> << >>]]

Layouts ==
    { [birthday |-> b, anniversary |-> GoodAnniversary] :
        b \in { GoodBirthday,
                Section(BirthdayBox, FALSE, TRUE, TRUE),
                Section(BirthdayBox, TRUE, FALSE, TRUE),
                Section(BirthdayBox, TRUE, TRUE, FALSE) } }
    \cup
    { [birthday |-> GoodBirthday, anniversary |-> a] :
        a \in { Section(AnniversaryBox, FALSE, TRUE, TRUE),
                Section(AnniversaryBox, TRUE, FALSE, TRUE),
                Section(AnniversaryBox, TRUE, TRUE, FALSE) } }

\* A slot of cfg["fonts"]: its path ("" when the slot is unset) and what
\* is found at the path.
FontSlot(path, file) == [path |-> path, file |-> file]

UnsetSlot == FontSlot("", "missing")

FontSlots(path) ==
    { UnsetSlot } \cup { FontSlot(path, f) : f \in {"missing", "unreadable", "ok"} }

FontSets ==
    [year : FontSlots("fonts/Year.ttf"), bold : FontSlots("fonts/Bold.ttf"),
     regular : FontSlots("fonts/Regular.ttf")]

\* The font set of the runs: no year font, a bold font, a regular font whose
\* file is gone.
RunFonts ==
    [year |-> UnsetSlot, bold |-> FontSlot("fonts/Bold.ttf", "ok"),
     regular |-> FontSlot("fonts/Regular.ttf", "missing")]

Configs ==
    { [birthday |-> l.birthday, anniversary |-> l.anniversary, recipients |-> r,
       fonts |-> RunFonts] :
        l \in Layouts, r \in {AllRecipients, NoBirthdayRecipients} }

ApiKeys == {"", "wbg-key"}

Todays == { [year |-> 2024, month |-> 6, day |-> 1],
            [year |-> 2024, month |-> 3, day |-> 15] }

\* Raw records as the data source returns them; text and dates are
\* character strings.
John ==
    [name |-> <<"j", "o", "h", "n", " ", "d", "o", "e">>,
     designation |-> <<"C", "T", "O">>,
     vertical    |-> <<"S", "a", "l", "e", "s">>,
     department  |-> <<"F", "i", "n", "a", "n", "c", "e">>,
     location    |-> <<"P", "u", "n", "e">>,
     dob  |-> <<"1", "5", "-", "0", "3", "-", "1", "9", "9", "0">>,
     doj  |-> <<"0", "1", "-", "0", "6", "-", "2", "0", "1", "5">>,
     photo_url |-> "https://hr/john.jpg"]
Asha ==
    [name |-> <<"A", "s", "h", "a", " ", "R", "A", "O">>,
     designation |-> <<"H", "R">>,
     vertical    |-> <<"S", "a", "l", "e", "s">>,
     department  |-> << >>,
     location    |-> << >>,
     dob  |-> <<"0", "1", "/", "0", "6", "/", "1", "9", "8", "5">>,
     doj  |-> <<"2", "0", "1", "3", "-", "0", "6", "-", "0", "1">>,
     photo_url |-> ""]
Nila ==
    [name |-> << >>,
     designation |-> << >>,
     vertical    |-> << >>,
     department  |-> << >>,
     location    |-> << >>,
     dob  |-> <<" ", "1", "7", "/", "0", "3", "/", "1", "9", "9", "9", " ">>,
     doj  |-> << >>,
     photo_url |-> "https://hr/nila.png"]

RawEmployees == {John, Asha, Nila}

\* The employee lists: up to MaxEmployees records, one per employee.
RawLists ==
    { l \in UNION { [1..n -> RawEmployees] : n \in 0..MaxEmployees } :
        \A i, j \in 1..Len(l) : i # j => l[i] # l[j] }

\* What fetch_image_bytes can deliver: nothing (it raised), bytes that are
\* no image, or an image of some size.
PhotoSizes == { <<2, 3>>, <<4, 2>> }

Downloads ==
    { [ok |-> FALSE, decodable |-> FALSE, w |-> 0, h |-> 0],
      [ok |-> TRUE, decodable |-> FALSE, w |-> 0, h |-> 0] }
    \cup { [ok |-> TRUE, decodable |-> TRUE, w |-> sz[1], h |-> sz[2]] :
             sz \in PhotoSizes }

\* rw x rh is the size of img_resized, the image the crop is taken from.
NoPhoto == [kind |-> "none", decodable |-> FALSE, w |-> 0, h |-> 0,
            left |-> 0, top |-> 0, rw |-> 0, rh |-> 0]
NoFace == [status |-> "none", cx |-> 0, cy |-> 0]

-----------------------------------------------------------------------------
(* The generators of poster_engine.py, step by step *)

Emp == employees[idx]

\* ImageFont.load_default()
DefaultFont == [name |-> "default", size |-> 0]
NoFont == [name |-> "", size |-> 0]

\* One draw operation on the canvas.
DrawOp(op, text, x, y, w, h) ==
    [op |-> op, text |-> text, x |-> x, y |-> y, w |-> w, h |-> h,
     font |-> NoFont]

\* draw.text((x, y), text, font=font, fill=(255, 255, 255))
DrawText(op, text, x, y, font) ==
    [DrawOp(op, text, x, y, 0, 0) EXCEPT !.font = font]

HasOp(canvas, op) == \E k \in 1..Len(canvas) : canvas[k].op = op
OpIndex(canvas, op) == CHOOSE k \in 1..Len(canvas) : canvas[k].op = op

-----------------------------------------------------------------------------
(* poster_engine._load_font, _build_text_lines, _draw_text_block *)

\* year_lbl_cfg.get("x", 80), .get("y", 80), .get("font_size", 64)
DefaultYearX == 80
DefaultYearY == 80
DefaultYearFontSize == 64
\* cfg.get("line_spacing", 48), .get("font_size_name", 38),
\* .get("font_size_detail", 26)
DefaultLineSpacing == 48
DefaultFontSizeName == 38
DefaultFontSizeDetail == 26

\* Variant: a path that is set is trusted to hold a font.
load_font_unguarded(slot, size) ==
    IF slot.path # "" THEN [name |-> slot.path, size |-> size] ELSE DefaultFont

\* _load_font(path, size): the font of the file if the path is set, exists
\* and ImageFont.truetype reads it; the default font otherwise.
load_font(slot, size) ==
    IF slot.path # "" /\ slot.file # "missing"
    THEN IF slot.file = "ok" THEN [name |-> slot.path, size |-> size]
         ELSE DefaultFont
    ELSE DefaultFont

\* fonts.get("year") or fonts.get("bold") or fonts.get("regular", "")
YearFontSlot(fonts) ==
    IF fonts.year.path # "" THEN fonts.year
    ELSE IF fonts.bold.path # "" THEN fonts.bold
    ELSE fonts.regular

\* fonts.get("bold") or fonts.get("regular", "")
NameFontSlot(fonts) ==
    IF fonts.bold.path # "" THEN fonts.bold ELSE fonts.regular

\* Variant: the two parts always joined.
OrgLineAlwaysJoined(vertical, department) ==
    vertical \o <<" ", "-", " ">> \o department

\* Line 49: f"{vertical} - {department}" if both, else vertical or department.
OrgLine(vertical, department) ==
    IF vertical # << >> /\ department # << >>
    THEN vertical \o <<" ", "-", " ">> \o department
    ELSE IF vertical # << >> THEN vertical ELSE department

build_text_lines(emp, poster_type) ==
    LET name == IF poster_type = "birthday" THEN title(emp.name)
                ELSE upper(emp.name)
    IN  << [text |-> name, weight |-> "bold"],
           [text |-> emp.designation, weight |-> "regular"],
           [text |-> OrgLine(emp.vertical, emp.department), weight |-> "regular"],
           [text |-> emp.location, weight |-> "regular"] >>

\* _draw_text_block: one draw.text per line, y advancing by the spacing.
draw_text_block(lines, tb, fonts) ==
    [i \in 1..Len(lines) |->
       DrawText("text", lines[i].text, tb.x, tb.y + (i - 1) * DefaultLineSpacing,
                IF i = 1 THEN load_font(NameFontSlot(fonts), DefaultFontSizeName)
                ELSE load_font(fonts.regular, DefaultFontSizeDetail))]

\* Variant: the text block drawn before the photo step.
NextStepTextFirst(type, step) ==
    CASE step = "gen_template" ->
           (IF type = "anniversary" THEN "gen_year" ELSE "gen_text")
      [] step = "gen_year" -> "gen_text"
      [] step = "gen_text" -> "gen_photo"
      [] step = "gen_photo" -> "collect"

\* The order of composition in generate_birthday_poster (116-137) and
\* generate_anniversary_poster (154-202): template, year label
\* (anniversary), photo step, text block, return.
NextStep(type, step) ==
    CASE step = "gen_template" ->
           (IF type = "anniversary" THEN "gen_year" ELSE "gen_photo")
      [] step = "gen_year" -> "gen_photo"
      [] step = "gen_photo" -> "gen_text"
      [] step = "gen_text" -> "collect"

\* An exception leaves the generator: control is back in the caller.
Raise(kind) ==
    /\ pc' = "collect"
    /\ result' = "raised"
    /\ error' = kind
    /\ swallowed' = swallowed

\* Variant: the photo-step exception leaves the generator.
SwallowReraise(kind) ==
    /\ pc' = "collect"
    /\ result' = "raised"
    /\ error' = kind
    /\ swallowed' = kind

\* `except Exception: pass` around the photo steps (lines 129-130, 195-196):
\* the generator goes on with the text block.
Swallow(kind) ==
    /\ pc' = NextStep(gtype, "gen_photo")
    /\ swallowed' = kind
    /\ result' = IF pc' = "collect" THEN "image" ELSE result
    /\ error' = error

\* On to the next step; after the last one the canvas is returned.
Goto(next) ==
    /\ pc' = next
    /\ result' = IF next = "collect" THEN "image" ELSE result
    /\ UNCHANGED << swallowed, error >>

\* Variant: the key alone is tested, not its value.
HasPhotoUrlKey(emp) == TRUE

\* Lines 123-124 / 183-184: `if photo_url:`
HasPhotoUrl(emp) == emp.photo_url # ""

\* The call of a generator: fresh locals.
StartGenerate(i, type) ==
    /\ pc' = "gen_template"
    /\ idx' = i
    /\ gtype' = type
    /\ base' = << >>
    /\ photo' = NoPhoto
    /\ attempt' = 0
    /\ calls' = 0
    /\ sleeps' = << >>
    /\ rb_out' = "none"
    /\ face' = NoFace
    /\ swallowed' = "none"
    /\ result' = "none"
    /\ error' = "none"
    /\ gen_calls' = [gen_calls EXCEPT ![i][type] = @ + 1]

\* Lines 116-120 / 154-159: the section of the poster type, the template.
GenLoadTemplate ==
    /\ pc = "gen_template"
    /\ IF cfg[gtype].template_ok
       THEN /\ base' = <<DrawOp("template", "", 0, 0, 0, 0)>>
            /\ Goto(NextStep(gtype, "gen_template"))
       ELSE /\ base' = base
            /\ Raise("template")
    /\ UNCHANGED << inputVars, envVars, runVars, pureVars, gtype, photo,
                    attempt, calls, sleeps, rb_out, face >>

\* Variant: a year counted only once its day has come.
YearsAdjusted(t, doj) ==
    IF doj = None THEN 0
    ELSE t.year - doj.year
         - (IF t.month < doj.month \/ (t.month = doj.month /\ t.day < doj.day)
            THEN 1 ELSE 0)

\* Lines 162-165: years = today.year - doj.year, 0 without a doj.
Years(t, doj) == IF doj = None THEN 0 ELSE t.year - doj.year

\* Lines 167-179: the ordinal year label (anniversary only).
GenYearLabel ==
    /\ pc = "gen_year"
    /\ base' = Append(base,
                      DrawText("year_label", ordinal(Years(today, Emp.doj)),
                               DefaultYearX, DefaultYearY,
                               load_font(YearFontSlot(cfg.fonts),
                                         DefaultYearFontSize)))
    /\ Goto(NextStep(gtype, "gen_year"))
    /\ UNCHANGED << inputVars, envVars, runVars, pureVars, gtype, photo,
                    attempt, calls, sleeps, rb_out, face >>

\* Lines 123-124 / 182-184.  The anniversary generator reads
\* a_cfg["photo_box"] before its try block; the birthday generator reads
\* b_cfg["photo_box"] inside it (line 128).
GenPhotoUrl ==
    /\ pc = "gen_photo"
    /\ IF gtype = "anniversary" /\ ~cfg[gtype].has_photo_box
       THEN Raise("photo_box")
       ELSE Goto(IF HasPhotoUrl(Emp) THEN "fetch"
                 ELSE NextStep(gtype, "gen_photo"))
    /\ UNCHANGED << inputVars, envVars, runVars, pureVars, gtype, base, photo,
                    attempt, calls, sleeps, rb_out, face >>

\* image_tools.fetch_image_bytes, called at lines 126 / 186.
FetchImageBytes ==
    /\ pc = "fetch"
    /\ \E d \in Downloads :
         IF d.ok
         THEN /\ photo' = [NoPhoto EXCEPT !.kind = "bytes",
                                          !.decodable = d.decodable,
                                          !.w = d.w, !.h = d.h]
              /\ Goto(IF gtype = "birthday" THEN "rb_import" ELSE "anniv_decode")
         ELSE /\ photo' = photo
              /\ Swallow("download")
    /\ UNCHANGED << inputVars, envVars, runVars, pureVars, gtype, base,
                    attempt, calls, sleeps, rb_out, face >>

-----------------------------------------------------------------------------
(* image_tools.remove_background, reached through prepare_birthday_photo *)

\* The import at lines 32-34 gives the same answer throughout a run.
ImportOutcomes(known) ==
    IF known = "unknown" THEN BOOLEAN ELSE {known = "yes"}

\* Variant: the service is tried even without the SDK.
AfterImportAlwaysCalls(imported, n) ==
    IF n > 0 THEN "rb_attempt" ELSE "rb_none"

\* Lines 32-38: without the SDK the raw image is returned at once; with it
\* the loop `for attempt in range(retries)` starts (and is empty for 0).
AfterImport(imported, n) ==
    IF ~imported THEN "rb_fallback"
    ELSE IF n > 0 THEN "rb_attempt" ELSE "rb_none"

\* Variant: the last attempt is followed by a sleep and one more attempt.
AfterFailureOffByOne(a, n) ==
    IF a < n THEN "rb_sleep" ELSE "rb_fallback"

\* Lines 43-48: after a failed attempt, sleep unless it was the last one.
AfterFailure(a, n) ==
    IF a < n - 1 THEN "rb_sleep" ELSE "rb_fallback"

\* Variant: the backoff starts at 2 seconds.
BackoffDelayShifted(a) == Pow2(a + 1)

\* Line 45: time.sleep(2 ** attempt)
BackoffDelay(a) == Pow2(a)

RbImport ==
    /\ pc = "rb_import"
    /\ \E imported \in ImportOutcomes(sdk) :
         /\ sdk' = IF imported THEN "yes" ELSE "no"
         /\ IF AfterImport(imported, retries) = "rb_none"
            THEN \* the loop body never runs: the function returns None
                 /\ rb_out' = "nothing"
                 /\ photo' = [photo EXCEPT !.kind = "nothing"]
                 /\ Goto("place")
            ELSE /\ rb_out' = "running"
                 /\ photo' = photo
                 /\ Goto(AfterImport(imported, retries))
    /\ attempt' = 0
    /\ UNCHANGED << inputVars, mediapipe, runVars, pureVars, gtype, base,
                    calls, sleeps, face >>

\* Lines 40-42: one call of the service; any exception counts as a failure.
\* The service cannot cut out bytes that are no image.
RbAttempt ==
    /\ pc = "rb_attempt"
    /\ calls' = calls + 1
    /\ \E ok \in (IF photo.decodable THEN BOOLEAN ELSE {FALSE}) :
         IF ok
         THEN /\ photo' = [photo EXCEPT !.kind = "cutout"]
              /\ rb_out' = "cutout"
              /\ Goto("place")
         ELSE /\ photo' = photo
              /\ rb_out' = rb_out
              /\ Goto(AfterFailure(attempt, retries))
    /\ UNCHANGED << inputVars, envVars, runVars, pureVars, gtype, base,
                    attempt, sleeps, face >>

\* Line 45, then the next iteration of the loop.
RbSleep ==
    /\ pc = "rb_sleep"
    /\ sleeps' = Append(sleeps, BackoffDelay(attempt))
    /\ attempt' = attempt + 1
    /\ Goto("rb_attempt")
    /\ UNCHANGED << inputVars, envVars, runVars, pureVars, gtype, base, photo,
                    calls, rb_out, face >>

\* Lines 36 and 48: Image.open(io.BytesIO(image_bytes)).convert("RGBA").
\* Bytes that are no image make Image.open raise; the exception leaves
\* remove_background and is absorbed by the generator's except clause.
RbFallback ==
    /\ pc = "rb_fallback"
    /\ IF photo.decodable
       THEN /\ photo' = [photo EXCEPT !.kind = "original"]
            /\ rb_out' = "original"
            /\ Goto("place")
       ELSE /\ photo' = photo
            /\ rb_out' = "raised"
            /\ Swallow("decode")
    /\ UNCHANGED << inputVars, envVars, runVars, pureVars, gtype, base,
                    attempt, calls, sleeps, face >>

\* Line 128 with _place_birthday_photo, lines 84-106.
PlaceBirthdayPhoto ==
    /\ pc = "place"
    /\ IF ~cfg[gtype].has_photo_box
       THEN base' = base /\ Swallow("photo_box")
       ELSE IF photo.kind = "nothing"
       THEN base' = base /\ Swallow("placement")
       ELSE \E failed \in BOOLEAN :
            \E r \in PlaceRects(cfg[gtype].photo_box, photo.w, photo.h) :
              IF failed
              THEN base' = base /\ Swallow("placement")
              ELSE /\ base' = Append(base, DrawOp("photo", "", r.x, r.y, r.w, r.h))
                   /\ Goto(NextStep(gtype, "gen_photo"))
    /\ UNCHANGED << inputVars, envVars, runVars, pureVars, gtype, photo,
                    attempt, calls, sleeps, rb_out, face >>

-----------------------------------------------------------------------------
(* image_tools.prepare_anniversary_photo and _face_aware_crop *)

\* Line 122: decode the downloaded bytes.
AnnivDecode ==
    /\ pc = "anniv_decode"
    /\ IF photo.decodable
       THEN /\ photo' = [photo EXCEPT !.kind = "original"]
            /\ Goto("crop_resize")
       ELSE /\ photo' = photo
            /\ Swallow("decode")
    /\ UNCHANGED << inputVars, envVars, runVars, pureVars, gtype, base,
                    attempt, calls, sleeps, rb_out, face >>

\* Lines 71-75: the cover resize.
CropResize ==
    /\ pc = "crop_resize"
    /\ \E sz \in ResizedSizes(cfg[gtype].photo_box.w, cfg[gtype].photo_box.h,
                              photo.w, photo.h) :
         photo' = [photo EXCEPT !.kind = "resized", !.w = sz[1], !.h = sz[2]]
    /\ Goto("detect")
    /\ UNCHANGED << inputVars, envVars, runVars, pureVars, gtype, base,
                    attempt, calls, sleeps, rb_out, face >>

\* _detect_face_center, lines 92-115.  Only the ImportError is caught; an
\* exception of the detector itself leaves _detect_face_center,
\* _face_aware_crop and prepare_anniversary_photo.  A detected centre lies
\* anywhere in the resized image.
DetectFaceCenter ==
    /\ pc = "detect"
    /\ \E imported \in ImportOutcomes(mediapipe) :
         /\ mediapipe' = IF imported THEN "yes" ELSE "no"
         /\ IF ~imported
            THEN /\ face' = [status |-> "unavailable", cx |-> 0, cy |-> 0]
                 /\ Goto("crop")
            ELSE \E outcome \in {"raised", "no_face", "found"} :
                   IF outcome = "raised"
                   THEN /\ face' = [status |-> "raised", cx |-> 0, cy |-> 0]
                        /\ Swallow("detector")
                   ELSE IF outcome = "no_face"
                   THEN /\ face' = [status |-> "no_face", cx |-> 0, cy |-> 0]
                        /\ Goto("crop")
                   ELSE \E cx \in 0..photo.w, cy \in 0..photo.h :
                        /\ face' = [status |-> "found", cx |-> cx, cy |-> cy]
                        /\ Goto("crop")
    /\ UNCHANGED << inputVars, sdk, runVars, pureVars, gtype, base, photo,
                    attempt, calls, sleeps, rb_out >>

\* Lines 80-89: fallback anchor when no centre came back, clamp, crop.
\* cx and cy are locals that end with the call.
FaceAwareCrop ==
    /\ pc = "crop"
    /\ LET tw == cfg[gtype].photo_box.w
           th == cfg[gtype].photo_box.h
           anchors == IF face.status = "found"
                      THEN { << face.cx, face.cy >> }
                      ELSE FallbackAnchors(photo.w, photo.h)
       IN  \E a \in anchors :
             LET box == CropBox(CropLeft(a[1], tw, photo.w),
                                CropTop(a[2], th, photo.h), tw, th)
             IN  photo' = [photo EXCEPT !.kind = "crop",
                                        !.w = CropSize(box)[1],
                                        !.h = CropSize(box)[2],
                                        !.left = box.left, !.top = box.upper,
                                        !.rw = photo.w, !.rh = photo.h]
    /\ face' = [face EXCEPT !.cx = 0, !.cy = 0]
    /\ Goto("paste")
    /\ UNCHANGED << inputVars, envVars, runVars, pureVars, gtype, base,
                    attempt, calls, sleeps, rb_out >>

\* Lines 190-194: paste at the top-left corner of the photo box.
PasteAnniversaryPhoto ==
    /\ pc = "paste"
    /\ \E failed \in BOOLEAN :
         IF failed
         THEN base' = base /\ Swallow("placement")
         ELSE /\ base' = Append(base, DrawOp("photo", "",
                                             cfg[gtype].photo_box.x,
                                             cfg[gtype].photo_box.y,
                                             photo.w, photo.h))
              /\ Goto(NextStep(gtype, "gen_photo"))
    /\ UNCHANGED << inputVars, envVars, runVars, pureVars, gtype, photo,
                    attempt, calls, sleeps, rb_out, face >>

\* Lines 133-137 / 199-202: the text block, then return.  A layout without
\* text_block raises KeyError outside any try block.
GenTextBlock ==
    /\ pc = "gen_text"
    /\ IF cfg[gtype].has_text_block
       THEN /\ base' = base \o draw_text_block(build_text_lines(Emp, gtype),
                                                 cfg[gtype].text_block, cfg.fonts)
            /\ Goto(NextStep(gtype, "gen_text"))
       ELSE /\ base' = base
            /\ Raise("text_block")
    /\ UNCHANGED << inputVars, envVars, runVars, pureVars, gtype, photo,
                    attempt, calls, sleeps, rb_out, face >>

-----------------------------------------------------------------------------
(* The callers: daily_run.main, app.page_send, app.page_preview *)

BatchCallers == {"daily_run", "page_send"}
Callers == BatchCallers \cup {"page_preview"}

\* Variant: the month alone is compared.
DateMatchesMonthOnly(d, t) == d # None /\ d.month = t.month

\* `dob and dob.month == today.month and dob.day == today.day`
DateMatches(d, t) == d # None /\ d.month = t.month /\ d.day = t.day

IdleCall ==
    /\ gtype = "none"
    /\ base = << >>
    /\ photo = NoPhoto
    /\ attempt = 0
    /\ calls = 0
    /\ sleeps = << >>
    /\ rb_out = "none"
    /\ face = NoFace
    /\ swallowed = "none"
    /\ result = "none"
    /\ error = "none"

\* daily_run lines 70-71 / page_send lines 345-346.
BirthdayCheck ==
    /\ pc = "birthday_check"
    /\ idx <= Len(employees)
    /\ IF DateMatches(Emp.dob, today)
       THEN StartGenerate(idx, "birthday")
       ELSE /\ pc' = "anniversary_check"
            /\ UNCHANGED << callVars, idx, gen_calls >>
    /\ UNCHANGED << inputVars, envVars, pureVars, birthday_posters,
                    anniversary_posters, log, emails >>

\* daily_run lines 84-85 / page_send lines 353-354.
AnniversaryCheck ==
    /\ pc = "anniversary_check"
    /\ IF DateMatches(Emp.doj, today)
       THEN StartGenerate(idx, "anniversary")
       ELSE /\ pc' = "birthday_check"
            /\ idx' = idx + 1
            /\ UNCHANGED << callVars, gen_calls >>
    /\ UNCHANGED << inputVars, envVars, pureVars, birthday_posters,
                    anniversary_posters, log, emails >>

\* The for loop is exhausted.
LoopEnd ==
    /\ pc = "birthday_check"
    /\ idx > Len(employees)
    /\ pc' = "send_birthday"
    /\ UNCHANGED << inputVars, envVars, callVars, runVars, pureVars >>

\* Variant: a failed poster ends the run.
AfterPosterAbortOnError(type, failed) ==
    IF failed THEN "crashed"
    ELSE IF type = "birthday" THEN "anniversary_check" ELSE "birthday_check"

\* Where the loop body goes on after a poster, generated or failed: the
\* except clauses (daily_run 80-81, 94-95; page_send 350-351, 358-359) only
\* report.
AfterPoster(type, failed) ==
    IF type = "birthday" THEN "anniversary_check" ELSE "birthday_check"

\* Back in the caller.  daily_run 74-81 / 88-95 and page_send 349-351 /
\* 357-359 encode (and daily_run stores) the image and append it to the
\* list of its type; an exception of the generator, the encoder or the file
\* write is reported and nothing is appended.  page_preview 276-282 /
\* 294-300 shows the image or the error.
Collect ==
    /\ pc = "collect"
    /\ \E stored \in BOOLEAN :
         LET failed == result = "raised" \/ ~stored IN
         /\ log' = IF failed
                   THEN Append(log, [emp |-> idx, type |-> gtype])
                   ELSE log
         /\ IF caller = "page_preview"
            THEN /\ pc' = "done"
                 /\ UNCHANGED << idx, birthday_posters, anniversary_posters >>
            ELSE /\ pc' = AfterPoster(gtype, failed)
                 /\ idx' = IF pc' = "birthday_check" THEN idx + 1 ELSE idx
                 /\ birthday_posters' =
                      IF ~failed /\ gtype = "birthday"
                      THEN Append(birthday_posters, idx) ELSE birthday_posters
                 /\ anniversary_posters' =
                      IF ~failed /\ gtype = "anniversary"
                      THEN Append(anniversary_posters, idx) ELSE anniversary_posters
    /\ gtype' = "none"
    /\ base' = << >>
    /\ photo' = NoPhoto
    /\ attempt' = 0
    /\ calls' = 0
    /\ sleeps' = << >>
    /\ rb_out' = "none"
    /\ face' = NoFace
    /\ swallowed' = "none"
    /\ result' = "none"
    /\ error' = "none"
    /\ UNCHANGED << inputVars, envVars, pureVars, gen_calls, emails >>

\* page_preview 258-260: nothing to select.
PreviewEmpty ==
    /\ pc = "preview"
    /\ Len(employees) = 0
    /\ pc' = "done"
    /\ UNCHANGED << inputVars, envVars, callVars, runVars, pureVars >>

\* page_preview 264-277: the button generates for the selected employee,
\* whatever the chosen date.
PreviewBirthday ==
    /\ pc = "preview"
    /\ \E i \in 1..Len(employees) : StartGenerate(i, "birthday")
    /\ UNCHANGED << inputVars, envVars, pureVars, birthday_posters,
                    anniversary_posters, log, emails >>

\* page_preview 285-295.
PreviewAnniversary ==
    /\ pc = "preview"
    /\ \E i \in 1..Len(employees) : StartGenerate(i, "anniversary")
    /\ UNCHANGED << inputVars, envVars, pureVars, birthday_posters,
                    anniversary_posters, log, emails >>

\* Variant: only the poster list is tested.
NothingToSendWithoutPosters(posters, rc) == posters = << >>

\* mailer.py 66-67, 72-73 / 87-88, 93-94: `if not posters: return`,
\* `if not to: return`.
NothingToSend(posters, rc) == posters = << >> \/ rc.to = << >>

\* Variant: a failed send ends the run in every runner.
AfterSendFailureAborts(runner, next) == "crashed"

\* An exception of send_email is caught by page_send (app.py 371-372,
\* 383-384), which goes on; nothing catches it in daily_run.main.
AfterSendFailure(runner, next) ==
    IF runner = "daily_run" THEN "crashed" ELSE next

\* mailer.send_birthday_emails / send_anniversary_emails with send_email:
\* nothing without posters or without a `to` list; otherwise one SMTP
\* session for one message to to + cc with the posters attached, which
\* either delivers the message or raises.
SendEmails(type, posters, next) ==
    LET rc == cfg.recipients[type] IN
    IF NothingToSend(posters, rc)
    THEN /\ pc' = next
         /\ UNCHANGED << emails, log >>
    ELSE \E ok \in BOOLEAN :
           /\ emails' = Append(emails, [type |-> type, rcpt |-> rc.to \o rc.cc,
                                        attachments |-> posters, sent |-> ok])
           /\ log' = IF ok THEN log ELSE Append(log, [emp |-> 0, type |-> type])
           /\ pc' = IF ok THEN next ELSE AfterSendFailure(caller, next)

\* daily_run 101-107 / page_send 362-372.
SendBirthday ==
    /\ pc = "send_birthday"
    /\ SendEmails("birthday", birthday_posters, "send_anniversary")
    /\ UNCHANGED << inputVars, envVars, callVars, pureVars, idx, gen_calls,
                    birthday_posters, anniversary_posters >>

\* daily_run 108-114 / page_send 374-384.
SendAnniversary ==
    /\ pc = "send_anniversary"
    /\ SendEmails("anniversary", anniversary_posters, "done")
    /\ UNCHANGED << inputVars, envVars, callVars, pureVars, idx, gen_calls,
                    birthday_posters, anniversary_posters >>

-----------------------------------------------------------------------------
(* The specification of the program *)

Init ==
    /\ caller \in Callers
    /\ cfg \in Configs
    /\ api_key \in ApiKeys
    /\ today \in Todays
    /\ \E raw \in RawLists :
         employees = [i \in 1..Len(raw) |-> map_employee(raw[i])]
    /\ retries = DefaultRetries
    /\ idx = 1
    /\ pc = IF caller = "page_preview" THEN "preview" ELSE "birthday_check"
    /\ IdleCall
    /\ sdk = "unknown"
    /\ mediapipe = "unknown"
    /\ gen_calls = [i \in 1..Len(employees) |->
                      [birthday |-> 0, anniversary |-> 0]]
    /\ birthday_posters = << >>
    /\ anniversary_posters = << >>
    /\ log = << >>
    /\ emails = << >>
    /\ fin = 0
    /\ fout = 0

Next ==
    \/ BirthdayCheck
    \/ AnniversaryCheck
    \/ LoopEnd
    \/ PreviewEmpty
    \/ PreviewBirthday
    \/ PreviewAnniversary
    \/ GenLoadTemplate
    \/ GenYearLabel
    \/ GenPhotoUrl
    \/ FetchImageBytes
    \/ RbImport
    \/ RbAttempt
    \/ RbSleep
    \/ RbFallback
    \/ PlaceBirthdayPhoto
    \/ AnnivDecode
    \/ CropResize
    \/ DetectFaceCenter
    \/ FaceAwareCrop
    \/ PasteAnniversaryPhoto
    \/ GenTextBlock
    \/ Collect
    \/ SendBirthday
    \/ SendAnniversary

Spec == Init /\ [][Next]_vars

-----------------------------------------------------------------------------
(* Specifications that apply one pure function to enumerated inputs *)

\* The program at rest: no caller runs.
IdleProgram ==
    /\ caller = "none"
    /\ cfg = [birthday |-> GoodBirthday, anniversary |-> GoodAnniversary,
              recipients |-> AllRecipients, fonts |-> RunFonts]
    /\ api_key = ""
    /\ today = None
    /\ employees = << >>
    /\ retries = DefaultRetries
    /\ idx = 1
    /\ IdleCall
    /\ sdk = "unknown"
    /\ mediapipe = "unknown"
    /\ gen_calls = << >>
    /\ birthday_posters = << >>
    /\ anniversary_posters = << >>
    /\ log = << >>
    /\ emails = << >>

programVars == << inputVars, envVars, callVars, runVars >>

\* ordinal(n) for n in 0..MaxN
InitOrdinal ==
    /\ IdleProgram
    /\ pc = "ordinal"
    /\ fin \in 0..MaxN
    /\ fout = ""

ApplyOrdinal ==
    /\ pc = "ordinal"
    /\ fout' = ordinal(fin)
    /\ pc' = "ordinal_done"
    /\ UNCHANGED << programVars, fin >>

NextOrdinal == ApplyOrdinal

SpecOrdinal == InitOrdinal /\ [][NextOrdinal]_vars

\* _place_birthday_photo for every box and photo size up to MaxDim
NoRect == [x |-> 0, y |-> 0, w |-> 0, h |-> 0]

InitPlace ==
    /\ IdleProgram
    /\ pc = "place_call"
    /\ fin \in [box : [x : 0..1, y : 0..1, w : 1..MaxDim, h : 1..MaxDim],
                pw : 1..MaxDim, ph : 1..MaxDim]
    /\ fout = NoRect

ApplyPlace ==
    /\ pc = "place_call"
    /\ fout' \in PlaceRects(fin.box, fin.pw, fin.ph)
    /\ pc' = "place_done"
    /\ UNCHANGED << programVars, fin >>

NextPlace == ApplyPlace

SpecPlace == InitPlace /\ [][NextPlace]_vars

\* The photo step of generate_anniversary_poster (lines 186-194, with
\* prepare_anniversary_photo) for every photo box and every source photo up
\* to MaxDim pixels a side, and for bytes that are no image.
BoxOrigins == { <<0, 1>>, <<3, 0>> }

SourcePhotos ==
    { [NoPhoto EXCEPT !.kind = "bytes"] }
    \cup { [NoPhoto EXCEPT !.kind = "bytes", !.decodable = TRUE,
                           !.w = sw, !.h = sh] :
             sw \in 1..MaxDim, sh \in 1..MaxDim }

InitCrop ==
    /\ caller = "none"
    /\ \E o \in BoxOrigins, tw \in 1..MaxDim, th \in 1..MaxDim :
         cfg = [birthday    |-> GoodBirthday,
                anniversary |-> Section([x |-> o[1], y |-> o[2],
                                         w |-> tw, h |-> th], TRUE, TRUE, TRUE),
                recipients  |-> AllRecipients,
                fonts       |-> RunFonts]
    /\ api_key = ""
    /\ today = None
    /\ employees = << >>
    /\ retries = DefaultRetries
    /\ idx = 1
    /\ pc = "anniv_decode"
    /\ gtype = "anniversary"
    /\ base = << >>
    /\ photo \in SourcePhotos
    /\ attempt = 0
    /\ calls = 0
    /\ sleeps = << >>
    /\ rb_out = "none"
    /\ face = NoFace
    /\ swallowed = "none"
    /\ result = "none"
    /\ error = "none"
    /\ sdk = "unknown"
    /\ mediapipe = "unknown"
    /\ gen_calls = << >>
    /\ birthday_posters = << >>
    /\ anniversary_posters = << >>
    /\ log = << >>
    /\ emails = << >>
    /\ fin = 0
    /\ fout = 0

NextCrop ==
    \/ AnnivDecode
    \/ CropResize
    \/ DetectFaceCenter
    \/ FaceAwareCrop
    \/ PasteAnniversaryPhoto

SpecCrop == InitCrop /\ [][NextCrop]_vars

\* remove_background(image_bytes, api_key, retries) called with any retries
\* from 0 to MaxRetries, on bytes that are an image or not.
InitRemoveBackground ==
    /\ caller = "none"
    /\ cfg = [birthday |-> GoodBirthday, anniversary |-> GoodAnniversary,
              recipients |-> AllRecipients, fonts |-> RunFonts]
    /\ api_key \in ApiKeys
    /\ today = None
    /\ employees = << >>
    /\ retries \in 0..MaxRetries
    /\ idx = 1
    /\ pc = "rb_import"
    /\ gtype = "birthday"
    /\ base = << >>
    /\ \E d \in Downloads :
         /\ d.ok
         /\ photo = [NoPhoto EXCEPT !.kind = "bytes", !.decodable = d.decodable,
                                     !.w = d.w, !.h = d.h]
    /\ attempt = 0
    /\ calls = 0
    /\ sleeps = << >>
    /\ rb_out = "none"
    /\ face = NoFace
    /\ swallowed = "none"
    /\ result = "none"
    /\ error = "none"
    /\ sdk = "unknown"
    /\ mediapipe = "unknown"
    /\ gen_calls = << >>
    /\ birthday_posters = << >>
    /\ anniversary_posters = << >>
    /\ log = << >>
    /\ emails = << >>
    /\ fin = 0
    /\ fout = 0

NextRemoveBackground ==
    \/ RbImport
    \/ RbAttempt
    \/ RbSleep
    \/ RbFallback

SpecRemoveBackground == InitRemoveBackground /\ [][NextRemoveBackground]_vars

\* _build_text_lines for both poster types, on records whose text fields
\* are filled or empty.
TextNames ==
    { <<"j", "o", "h", "n", " ", "d", "o", "e">>,
      <<"A", "s", "h", "a", " ", "R", "A", "O">>,
      <<"o", "'", "n", "e", "i", "l", " ", "d", "2", "r">>,
      <<"m", "A", "R", "Y", "-", "a", "n", "n">>,
      << >> }

TextRecords ==
    [name : TextNames,
     designation : { << >>, <<"C", "T", "O">> },
     vertical : { << >>, <<"S", "a", "l", "e", "s">> },
     department : { << >>, <<"F", "i", "n", "a", "n", "c", "e">> },
     location : { << >>, <<"P", "u", "n", "e">> }]

InitText ==
    /\ IdleProgram
    /\ pc = "build_lines"
    /\ fin \in TextRecords
    /\ fout = [birthday |-> << >>, anniversary |-> << >>]

BuildBirthdayLines ==
    /\ pc = "build_lines"
    /\ fout.birthday = << >>
    /\ fout' = [fout EXCEPT !.birthday = build_text_lines(fin, "birthday")]
    /\ UNCHANGED << programVars, fin, pc >>

BuildAnniversaryLines ==
    /\ pc = "build_lines"
    /\ fout.anniversary = << >>
    /\ fout' = [fout EXCEPT !.anniversary = build_text_lines(fin, "anniversary")]
    /\ UNCHANGED << programVars, fin, pc >>

NextText ==
    \/ BuildBirthdayLines
    \/ BuildAnniversaryLines

SpecText == InitText /\ [][NextText]_vars

\* A generator call for an employee without photo, under every font set:
\* each slot unset, or set to a file that is missing, unreadable or a font.
InitFont ==
    /\ caller = "none"
    /\ \E f \in FontSets :
         cfg = [birthday |-> GoodBirthday, anniversary |-> GoodAnniversary,
                recipients |-> AllRecipients, fonts |-> f]
    /\ api_key = ""
    /\ today \in Todays
    /\ employees = << map_employee(Asha) >>
    /\ retries = DefaultRetries
    /\ idx = 1
    /\ pc = "gen_template"
    /\ gtype \in Types
    /\ base = << >>
    /\ photo = NoPhoto
    /\ attempt = 0
    /\ calls = 0
    /\ sleeps = << >>
    /\ rb_out = "none"
    /\ face = NoFace
    /\ swallowed = "none"
    /\ result = "none"
    /\ error = "none"
    /\ sdk = "unknown"
    /\ mediapipe = "unknown"
    /\ gen_calls = << [birthday |-> 0, anniversary |-> 0] >>
    /\ birthday_posters = << >>
    /\ anniversary_posters = << >>
    /\ log = << >>
    /\ emails = << >>
    /\ fin = 0
    /\ fout = 0

NextFont ==
    \/ GenLoadTemplate
    \/ GenYearLabel
    \/ GenPhotoUrl
    \/ GenTextBlock

SpecFont == InitFont /\ [][NextFont]_vars

-----------------------------------------------------------------------------
(* Properties *)

\* Template and layout of poster type t are usable.
ValidLayout(t) ==
    cfg[t].template_ok /\ cfg[t].has_photo_box /\ cfg[t].has_text_block

\* The date that decides poster type t for employee i.
DateOf(i, t) == IF t = "birthday" THEN employees[i].dob ELSE employees[i].doj

Matches(i, t) ==
    LET d == DateOf(i, t)
    IN  d # None /\ d.month = today.month /\ d.day = today.day

Posters(t) == IF t = "birthday" THEN birthday_posters ELSE anniversary_posters

Count(seq, v) == Cardinality({ k \in 1..Len(seq) : seq[k] = v })

LoopOver == pc \in {"send_birthday", "send_anniversary", "done", "crashed"}

\* The loop body's half for poster type t of employee i is behind us.
Processed(i, t) ==
    \/ LoopOver
    \/ i < idx
    \/ i = idx /\ t = "birthday" /\ (pc = "anniversary_check" \/ gtype = "anniversary")

\* C1: with the SDK importable and every service call failing,
\* remove_background (called with the default retries = 3 by
\* prepare_birthday_photo) makes exactly 3 calls, sleeps 1 s after the first
\* failure and 2 s after the second and not after the third, and then
\* returns the original image decoded as RGBA (the downloaded bytes being an
\* image).  While it runs, every sleep follows a failed call.
C1_ThreeAttemptsBackoffThenOriginal ==
    /\ (sdk = "yes" /\ rb_out \in {"original", "raised"})
         => /\ calls = 3
            /\ sleeps = << 1, 2 >>
            /\ (photo.decodable => rb_out = "original" /\ photo.kind = "original")
    /\ pc = "rb_sleep" => Len(sleeps) = calls - 1 /\ calls < 3
    /\ pc = "rb_attempt" => Len(sleeps) = calls /\ calls < 3
    /\ \A k \in 1..Len(sleeps) : sleeps[k] = 2 ^ (k - 1)

C1_Witness ==
    /\ sdk = "yes"
    /\ rb_out = "original"
    /\ photo.kind = "original"
    /\ calls = 3
    /\ sleeps = << 1, 2 >>

\* C2: with a photo_url and a valid template and layout, a failure of the
\* download, the preparation or the placement does not make the generator
\* raise: it returns the poster without a photo, with the text block (and
\* the year label on an anniversary poster) drawn.
C2_PhotoFailureStillGivesPoster ==
    (pc = "collect" /\ swallowed # "none" /\ ValidLayout(gtype))
      => /\ result = "image"
         /\ ~HasOp(base, "photo")
         /\ HasOp(base, "text")
         /\ (gtype = "anniversary" => HasOp(base, "year_label"))

C2_Witness ==
    /\ pc = "collect"
    /\ gtype = "anniversary"
    /\ swallowed = "download"
    /\ ValidLayout(gtype)
    /\ result = "image"
    /\ HasOp(base, "year_label")

\* C3: a configuration error (template that does not open, layout without
\* photo_box or text_block) always makes the generator raise, for both
\* poster types and with or without a photo_url, and nothing else does.
C3_ConfigErrorsAlwaysPropagate ==
    pc = "collect" => (result = "raised" <=> ~ValidLayout(gtype))

\* C4: a failure of face detection (capability missing, detector raising)
\* is treated like "no face": nothing leaves the detection, and the crop of
\* the target size is made from the fallback anchor.
C4_DetectionFailureIsNoFace ==
    (face.status \in {"unavailable", "raised"}
       /\ pc \in {"crop", "paste", "gen_text", "collect"})
      => /\ swallowed # "detector"
         /\ pc # "crop" => /\ photo.kind = "crop"
                           /\ photo.w = cfg[gtype].photo_box.w
                           /\ photo.h = cfg[gtype].photo_box.h

\* C5: in the batch runners every employee's poster of a type whose date
\* matches is attempted exactly once (and no other is), whatever failed
\* before; a failed generation is reported and adds no entry, a successful
\* one adds exactly one; the loop always runs to its end.
C5_EachMatchAttemptedOnce ==
    caller \in BatchCallers =>
      /\ \A i \in 1..Len(employees) : \A t \in Types :
           /\ gen_calls[i][t] <= 1
           /\ gen_calls[i][t] = 1 => Matches(i, t)
           /\ Processed(i, t) =>
                /\ gen_calls[i][t] = (IF Matches(i, t) THEN 1 ELSE 0)
                /\ Count(Posters(t), i) + Count(log, [emp |-> i, type |-> t])
                     = gen_calls[i][t]
      /\ pc = "crashed" => idx > Len(employees)

C5_Witness ==
    /\ caller = "daily_run"
    /\ LoopOver
    /\ Len(employees) = 2
    /\ Count(log, [emp |-> 1, type |-> "birthday"]) = 1
    /\ Count(anniversary_posters, 1) = 1
    /\ Count(anniversary_posters, 2) = 1

\* C6 (as claimed): if the SDK is not importable or withoutbg_api_key is
\* empty, the photo preparation returns the original image decoded as RGBA
\* without any service call and without any sleep.
C6_NotConfiguredMeansNoAttempt ==
    (rb_out # "none" /\ (sdk = "no" \/ api_key = "") /\ photo.decodable)
      => /\ calls = 0
         /\ sleeps = << >>
         /\ rb_out \in {"running", "original"}

\* C6 (amended): if the SDK is not importable the photo preparation returns
\* the original image decoded as RGBA (the bytes being an image) without
\* any service call or sleep; an empty withoutbg_api_key short-circuits
\* nothing: with the SDK importable the service is called with it, and a
\* fallback to the original image comes only after 3 failed calls and
\* 1 + 2 seconds of sleep.
C6_NoSdkMeansNoAttempt ==
    /\ (rb_out # "none" /\ sdk = "no")
         => /\ calls = 0
            /\ sleeps = << >>
            /\ pc # "rb_fallback" /\ photo.decodable
                 => rb_out = "original" /\ photo.kind = "original"
    /\ (api_key = "" /\ sdk = "yes" /\ rb_out \notin {"none", "running"})
         => /\ calls >= 1
            /\ rb_out = "original" => calls = 3 /\ sleeps = << 1, 2 >>

C6_Witness ==
    /\ sdk = "no"
    /\ api_key = ""
    /\ rb_out = "original"
    /\ photo.kind = "original"
    /\ calls = 0
    /\ pc = "place"

\* The label on the canvas, once drawn.
YearLabel == base[OpIndex(base, "year_label")].text

\* Full years from doj to t, counting a year only once its day has come.
CompletedYears(t, doj) ==
    t.year - doj.year
      - (IF t.month < doj.month \/ (t.month = doj.month /\ t.day < doj.day)
         THEN 1 ELSE 0)

\* C7 (as claimed): in every caller a generator is invoked for an employee
\* only if the date of the poster type is present and its month and day
\* equal the target date's, so the label is never off by one.
C7_GeneratedOnlyOnMatch ==
    gtype # "none"
      => /\ Matches(idx, gtype)
         /\ HasOp(base, "year_label")
              => YearLabel = ordinal(CompletedYears(today, Emp.doj))

\* C7 (amended): in the batch runners (daily_run.main, app.page_send) a
\* generator is invoked for an employee only if the date of the poster type
\* is present and its month and day equal the target date's, so there the
\* year label is the number of completed years; app.page_preview invokes
\* the generators for the selected employee whatever the dates.
C7_BatchGeneratesOnlyOnMatch ==
    (caller \in BatchCallers /\ gtype # "none")
      => /\ Matches(idx, gtype)
         /\ HasOp(base, "year_label")
              => YearLabel = ordinal(CompletedYears(today, Emp.doj))

C7_Witness ==
    /\ caller = "page_send"
    /\ gtype = "anniversary"
    /\ Matches(idx, gtype)
    /\ HasOp(base, "year_label")

\* C8: the year label is ordinal(date.year - doj.year), without month/day
\* adjustment, and ordinal(0) without a doj, for the date the caller passed:
\* doj "01-06-2015" gives "9th" on 2024-06-01, and also on 2024-03-15, when
\* only 8 years are completed.
C8_YearLabelIsYearDifference ==
    HasOp(base, "year_label")
      => /\ Emp.doj = None => YearLabel = "0th"
         /\ Emp.doj # None => YearLabel = ordinal(today.year - Emp.doj.year)
         /\ Emp.raw = John => Emp.doj.year = 2015 /\ YearLabel = "9th"
         /\ Emp.raw = Asha => Emp.doj.year = 2013 /\ YearLabel = "11th"

C8_Witness ==
    /\ HasOp(base, "year_label")
    /\ Emp.raw.doj = <<"0", "1", "-", "0", "6", "-", "2", "0", "1", "5">>
    /\ today = [year |-> 2024, month |-> 6, day |-> 1]
    /\ YearLabel = "9th"
    /\ caller = "daily_run"

\* The suffix the rule gives n.
ExpectedSuffix(n) ==
    IF n % 100 \in 11..13 THEN "th"
    ELSE IF n % 10 = 1 THEN "st"
    ELSE IF n % 10 = 2 THEN "nd"
    ELSE IF n % 10 = 3 THEN "rd"
    ELSE "th"

\* C9: for n >= 0, ordinal(n) is the decimal numeral of n followed by "th"
\* if n % 100 is in 11..13, else by "st", "nd", "rd" for n % 10 = 1, 2, 3,
\* else by "th" (0th, 1st, 11th, 21st, 112th, 121st).
C9_OrdinalRule ==
    pc = "ordinal_done"
      => /\ fout = ToString(fin) \o ExpectedSuffix(fin)
         /\ fin = 0 => fout = "0th"
         /\ fin = 1 => fout = "1st"
         /\ fin = 2 => fout = "2nd"
         /\ fin = 3 => fout = "3rd"
         /\ fin = 11 => fout = "11th"
         /\ fin = 12 => fout = "12th"
         /\ fin = 13 => fout = "13th"
         /\ fin = 21 => fout = "21st"
         /\ fin = 101 => fout = "101st"
         /\ fin = 112 => fout = "112th"
         /\ fin = 121 => fout = "121st"

C9_Witness == pc = "ordinal_done" /\ fin = 112 /\ fout = "112th"

\* C10: for every photo box and photo size, the rectangle
\* _place_birthday_photo pastes lies inside the box, starts at the box's
\* left edge and ends at its bottom edge; its sides are the contain-fit
\* sides rounded, and one of them is the box's.
C10_PlacedPhotoInsideBox ==
    pc = "place_done"
      => LET b == fin.box
             byWidth == b.w * fin.ph <= b.h * fin.pw
             \* exact scaled sides as fractions num / den
             wNum == IF byWidth THEN b.w ELSE fin.pw * b.h
             wDen == IF byWidth THEN 1 ELSE fin.ph
             hNum == IF byWidth THEN fin.ph * b.w ELSE b.h
             hDen == IF byWidth THEN fin.pw ELSE 1
             Abs(v) == IF v < 0 THEN -v ELSE v
         IN  /\ fout.x = b.x
             /\ fout.y + fout.h = b.y + b.h
             /\ fout.x + fout.w <= b.x + b.w
             /\ fout.y >= b.y
             /\ fout.w >= 0 /\ fout.h >= 0
             /\ fout.w = b.w \/ fout.h = b.h
             /\ 2 * Abs(fout.w * wDen - wNum) <= wDen
             /\ 2 * Abs(fout.h * hDen - hNum) <= hDen

C10_Witness ==
    /\ pc = "place_done"
    /\ fin.box = [x |-> 1, y |-> 1, w |-> 4, h |-> 5]
    /\ fin.pw = 3
    /\ fin.ph = 2
    /\ fout = [x |-> 1, y |-> 3, w |-> 4, h |-> 3]

\* The photo box of the poster type in progress.
Box == cfg[gtype].photo_box

\* C11: in _face_aware_crop, for every source size, target size and anchor
\* (a detected face centre anywhere in the resized image, its edges
\* included, or the fallback anchor) the resized image is at least the
\* target size on both axes, and the crop origin satisfies
\* 0 <= left <= resizedW - targetW and 0 <= top <= resizedH - targetH.
C11_CropOriginClamped ==
    /\ (pc \in {"detect", "crop"} /\ photo.kind = "resized")
         => photo.w >= Box.w /\ photo.h >= Box.h
    /\ photo.kind = "crop"
         => /\ photo.rw >= Box.w /\ photo.rh >= Box.h
            /\ 0 <= photo.left /\ photo.left <= photo.rw - Box.w
            /\ 0 <= photo.top /\ photo.top <= photo.rh - Box.h

\* a face found, the crop pushed back from the right edge
C11_Witness ==
    /\ photo.kind = "crop"
    /\ face.status = "found"
    /\ photo.rw = 10 /\ Box.w = 4
    /\ photo.left = 6
    /\ photo.top = 0

\* C12: prepare_anniversary_photo returns an image of exactly
\* (targetW, targetH) pixels for every source size and with or without a
\* detected face, and generate_anniversary_poster pastes it unscaled with
\* its top-left corner at (photoBox.x, photoBox.y).
C12_CropIsTargetSizePastedAtBox ==
    /\ photo.kind = "crop" => photo.w = Box.w /\ photo.h = Box.h
    /\ (gtype = "anniversary" /\ HasOp(base, "photo"))
         => LET p == base[OpIndex(base, "photo")]
            IN  /\ p.x = Box.x /\ p.y = Box.y
                /\ p.w = Box.w /\ p.h = Box.h

\* no face found, a 5 x 2 source for a 2 x 4 box, pasted
C12_Witness ==
    /\ gtype = "anniversary"
    /\ HasOp(base, "photo")
    /\ face.status = "no_face"
    /\ Box = [x |-> 3, y |-> 0, w |-> 2, h |-> 4]
    /\ photo.rw = 10 /\ photo.rh = 4
    /\ photo.left = 4
    /\ base[OpIndex(base, "photo")] = DrawOp("photo", "", 3, 0, 2, 4)

\* The text block on a canvas: its draw.text operations, in order.
TextBlockOf(canvas) == SelectSeq(canvas, LAMBDA o : o.op = "text")

\* The four lines the text layout prescribes for the three records.
ExpectedTexts(raw, type) ==
    IF raw = John
    THEN << IF type = "birthday"
            THEN <<"J", "o", "h", "n", " ", "D", "o", "e">>
            ELSE <<"J", "O", "H", "N", " ", "D", "O", "E">>,
            <<"C", "T", "O">>,
            <<"S", "a", "l", "e", "s", " ", "-", " ",
              "F", "i", "n", "a", "n", "c", "e">>,
            <<"P", "u", "n", "e">> >>
    ELSE IF raw = Asha
    THEN << IF type = "birthday"
            THEN <<"A", "s", "h", "a", " ", "R", "a", "o">>
            ELSE <<"A", "S", "H", "A", " ", "R", "A", "O">>,
            <<"H", "R">>,
            <<"S", "a", "l", "e", "s">>,
            << >> >>
    ELSE << << >>, << >>, << >>, << >> >>

\* The configuration lets poster type t be composed without a photo.
UsableWithoutPhoto(t) ==
    /\ cfg[t].template_ok
    /\ cfg[t].has_text_block
    /\ t = "anniversary" => cfg[t].has_photo_box

PhotoSteps == {"fetch", "rb_import", "rb_attempt", "rb_sleep", "rb_fallback",
               "place", "anniv_decode", "crop_resize", "detect", "crop", "paste"}

\* C13: for an employee whose photo_url is empty, both generators (given a
\* template that opens and the layout entries they read) return a poster
\* without any photo download or preparation: no fetch, no service call, no
\* face detection, no photo pasted; and the text block of a returned poster
\* is the four lines of the record at the configured place, the same
\* whether the record has a photo or not.
C13_NoPhotoUrlNoPhotoWork ==
    /\ (gtype # "none" /\ Emp.photo_url = "")
         => /\ pc \notin PhotoSteps
            /\ photo = NoPhoto /\ swallowed = "none"
            /\ calls = 0 /\ sleeps = << >> /\ rb_out = "none"
            /\ face = NoFace
            /\ ~HasOp(base, "photo")
            /\ (pc = "collect" /\ UsableWithoutPhoto(gtype)) => result = "image"
    /\ (pc = "collect" /\ result = "image")
         => LET tb == TextBlockOf(base)
            IN  /\ Len(tb) = 4
                /\ \A k \in 1..4 :
                     /\ tb[k].text = ExpectedTexts(Emp.raw, gtype)[k]
                     /\ tb[k].x = 60
                     /\ tb[k].y = 700 + 48 * (k - 1)

C13_Witness ==
    /\ pc = "collect"
    /\ gtype = "birthday"
    /\ Emp.raw = Asha
    /\ Emp.photo_url = ""
    /\ result = "image"
    /\ Len(base) = 5
    /\ base[2].text = <<"A", "s", "h", "a", " ", "R", "a", "o">>

Before(canvas, first, second) ==
    \A i, j \in 1..Len(canvas) :
      (canvas[i].op = first /\ canvas[j].op = second) => i < j

\* C17: composition follows a fixed order.  The template is the first thing
\* on the canvas; on an anniversary poster the year label is drawn before
\* the photo step starts; on both poster types the text block is drawn
\* after the photo step (done, failed or skipped) and nothing is drawn
\* after it: a returned poster ends with its four text lines.
C17_CompositionOrder ==
    gtype # "none" =>
      /\ base # << >> => base[1].op = "template"
      /\ \A k \in 2..Len(base) : base[k].op # "template"
      /\ Before(base, "year_label", "photo")
      /\ Before(base, "year_label", "text")
      /\ Before(base, "photo", "text")
      /\ (gtype = "anniversary" /\ pc \in PhotoSteps) => HasOp(base, "year_label")
      /\ pc \in PhotoSteps \cup {"gen_template", "gen_year", "gen_photo"}
           => ~HasOp(base, "text")
      /\ (pc = "collect" /\ result = "image")
           => /\ Len(base) >= 5
              /\ \A k \in (Len(base) - 3)..Len(base) : base[k].op = "text"
              /\ gtype = "anniversary" => base[2].op = "year_label"

C17_Witness ==
    /\ pc = "collect"
    /\ result = "image"
    /\ gtype = "anniversary"
    /\ Len(base) = 7
    /\ base[1].op = "template"
    /\ base[2].op = "year_label"
    /\ base[3].op = "photo"
    /\ base[7].op = "text"

Dash == <<" ", "-", " ">>

\* C14: _build_text_lines always returns exactly 4 lines, in the order
\* name, designation, org-line, location; an empty field gives an empty
\* line, not a missing one; the org-line is "{vertical} - {department}" if
\* both are non-empty, otherwise whichever is non-empty, otherwise empty.
C14_FourLinesOrgLine ==
    \A t \in Types :
      fout[t] # << >> =>
        LET lines == fout[t]
            v == fin.vertical
            d == fin.department
        IN  /\ Len(lines) = 4
            /\ Len(lines[1].text) = Len(fin.name)
            /\ lines[2].text = fin.designation
            /\ lines[4].text = fin.location
            /\ (v # << >> /\ d # << >>) => lines[3].text = v \o Dash \o d
            /\ (v # << >> /\ d = << >>) => lines[3].text = v
            /\ (v = << >> /\ d # << >>) => lines[3].text = d
            /\ (v = << >> /\ d = << >>) => lines[3].text = << >>
            /\ (v = <<"S", "a", "l", "e", "s">>
                  /\ d = <<"F", "i", "n", "a", "n", "c", "e">>)
                 => lines[3].text = <<"S", "a", "l", "e", "s", " ", "-", " ",
                                      "F", "i", "n", "a", "n", "c", "e">>

\* vertical "Sales" alone, no location
C14_Witness ==
    /\ pc = "build_lines"
    /\ fout.anniversary # << >>
    /\ fin.vertical = <<"S", "a", "l", "e", "s">>
    /\ fin.department = << >>
    /\ fin.location = << >>
    /\ fout.anniversary[3].text = <<"S", "a", "l", "e", "s">>
    /\ fout.anniversary[4].text = << >>
    /\ Len(fout.anniversary) = 4

\* Title case, position by position: a letter is upper case at the start of
\* a word (after a character that is no letter), lower case inside it.
IsTitleOf(text, name) ==
    /\ Len(text) = Len(name)
    /\ \A i \in 1..Len(name) :
         text[i] = IF ~IsCased(name[i]) THEN name[i]
                   ELSE IF i > 1 /\ IsCased(name[i - 1]) THEN ToLower(name[i])
                   ELSE ToUpper(name[i])

IsUpperOf(text, name) ==
    /\ Len(text) = Len(name)
    /\ \A i \in 1..Len(name) :
         /\ ~IsLower(text[i])
         /\ text[i] = name[i] \/ (IsLower(name[i]) /\ ToLower(text[i]) = name[i])

\* C15: the name line (line 1, weight bold) is the name in title case on a
\* birthday poster and in upper case on an anniversary poster ("john doe"
\* gives "John Doe" and "JOHN DOE"); the other three lines (weight
\* regular) are the same for the two poster types.
C15_NameCaseByPosterType ==
    /\ fout.birthday # << >>
         => /\ fout.birthday[1].weight = "bold"
            /\ IsTitleOf(fout.birthday[1].text, fin.name)
            /\ fin.name = <<"j", "o", "h", "n", " ", "d", "o", "e">>
                 => fout.birthday[1].text = <<"J", "o", "h", "n", " ", "D", "o", "e">>
            /\ fin.name = <<"m", "A", "R", "Y", "-", "a", "n", "n">>
                 => fout.birthday[1].text = <<"M", "a", "r", "y", "-", "A", "n", "n">>
    /\ fout.anniversary # << >>
         => /\ fout.anniversary[1].weight = "bold"
            /\ IsUpperOf(fout.anniversary[1].text, fin.name)
            /\ fin.name = <<"j", "o", "h", "n", " ", "d", "o", "e">>
                 => fout.anniversary[1].text = <<"J", "O", "H", "N", " ", "D", "O", "E">>
    /\ (fout.birthday # << >> /\ fout.anniversary # << >>)
         => \A k \in 2..4 : /\ fout.birthday[k] = fout.anniversary[k]
                             /\ fout.birthday[k].weight = "regular"

C15_Witness ==
    /\ fin.name = <<"j", "o", "h", "n", " ", "d", "o", "e">>
    /\ fout.birthday # << >>
    /\ fout.anniversary # << >>
    /\ fout.birthday[1].text = <<"J", "o", "h", "n", " ", "D", "o", "e">>
    /\ fout.anniversary[1].text = <<"J", "O", "H", "N", " ", "D", "O", "E">>
    /\ fout.birthday[3] = fout.anniversary[3]

\* The font a slot yields: the file's, or the built-in default.
SlotUsable(slot) == slot.path # "" /\ slot.file = "ok"

FontIsOf(font, slot, size) ==
    IF SlotUsable(slot) THEN font.name = slot.path /\ font.size = size
    ELSE font = DefaultFont

\* The first slot that is set, in the given order; the last one if none is.
FirstSet(fonts, order) ==
    IF \E k \in 1..Len(order) : fonts[order[k]].path # ""
    THEN fonts[order[CHOOSE k \in 1..Len(order) :
                       /\ fonts[order[k]].path # ""
                       /\ \A j \in 1..(k - 1) : fonts[order[j]].path = ""]]
    ELSE fonts[order[Len(order)]]

\* C16: font selection never aborts composition.  The year label uses the
\* first set slot in the order year, bold, regular; text line 0 uses bold
\* if set, else regular; lines 1-3 use regular; and when the selected slot
\* is unset, or its file is missing or unreadable, the built-in default
\* font is used; the generator returns the poster in every case.
C16_FontFallback ==
    /\ HasOp(base, "year_label")
         => FontIsOf(base[OpIndex(base, "year_label")].font,
                     FirstSet(cfg.fonts, <<"year", "bold", "regular">>), 64)
    /\ LET tb == TextBlockOf(base)
       IN  tb # << >>
             => /\ Len(tb) = 4
                /\ FontIsOf(tb[1].font, FirstSet(cfg.fonts, <<"bold", "regular">>), 38)
                /\ \A k \in 2..4 : FontIsOf(tb[k].font, cfg.fonts.regular, 26)
    /\ pc = "collect"
         => /\ result = "image"
            /\ Len(TextBlockOf(base)) = 4
            /\ gtype = "anniversary" => HasOp(base, "year_label")

\* year slot unset, bold file unreadable, regular font fine
C16_Witness ==
    /\ pc = "collect"
    /\ gtype = "anniversary"
    /\ result = "image"
    /\ cfg.fonts.year = UnsetSlot
    /\ cfg.fonts.bold = FontSlot("fonts/Bold.ttf", "unreadable")
    /\ cfg.fonts.regular = FontSlot("fonts/Regular.ttf", "ok")
    /\ base[2].font = DefaultFont
    /\ base[3].font = DefaultFont
    /\ base[4].font = [name |-> "fonts/Regular.ttf", size |-> 26]

RECURSIVE SumSeq(_)
SumSeq(q) == IF q = << >> THEN 0 ELSE Head(q) + SumSeq(Tail(q))

\* remove_background has returned (control is at the caller's next line).
RbReturned == rb_out \in {"cutout", "original", "nothing"}

\* C18: for every retries >= 1, remove_background makes at most `retries`
\* service attempts; if attempt k is the first to succeed it returns the
\* service's result as RGBA, makes no further attempt and has slept
\* 2^0 + ... + 2^(k-2) seconds in all (0 for k = 1); a sleep happens only
\* between two attempts, never after the last one; and the function never
\* returns without an image.
C18_AtMostRetriesAttempts ==
    retries >= 1 =>
      /\ calls <= retries
      /\ \A k \in 1..Len(sleeps) : sleeps[k] = 2 ^ (k - 1)
      /\ pc = "rb_attempt" => Len(sleeps) = calls /\ calls < retries
      /\ pc = "rb_sleep" => Len(sleeps) = calls - 1 /\ calls < retries
      /\ rb_out = "cutout"
           => /\ pc = "place"
              /\ photo.kind = "cutout"
              /\ calls >= 1
              /\ Len(sleeps) = calls - 1
              /\ SumSeq(sleeps) = 2 ^ (calls - 1) - 1
      /\ (rb_out = "original" /\ sdk = "yes")
           => calls = retries /\ Len(sleeps) = retries - 1
      /\ RbReturned
           => /\ rb_out # "nothing"
              /\ photo.kind \in {"cutout", "original"}
              /\ photo.decodable

\* the third of four permitted attempts succeeds
C18_Witness ==
    /\ retries = 4
    /\ rb_out = "cutout"
    /\ calls = 3
    /\ sleeps = << 1, 2 >>
    /\ photo.kind = "cutout"

\* The send_email calls made for poster type t.
EmailsOf(t) == SelectSeq(emails, LAMBDA e : e.type = t)

FailedSend(t) == \E k \in 1..Len(emails) : emails[k].type = t /\ ~emails[k].sent

\* There is something to send for poster type t.
Sendable(t) == Posters(t) # << >> /\ cfg.recipients[t].to # << >>

\* Sending starts only once every employee has been processed, and the
\* birthday send comes before the anniversary send.
SendAfterLoopBirthdayFirst ==
    /\ (emails # << >> \/ pc \in {"send_birthday", "send_anniversary"})
         => /\ idx = Len(employees) + 1
            /\ gtype = "none"
            /\ \A i \in 1..Len(employees) : \A t \in Types :
                 gen_calls[i][t] = (IF Matches(i, t) THEN 1 ELSE 0)
    /\ pc = "send_birthday" => emails = << >>
    /\ \A i, j \in 1..Len(emails) :
         (emails[i].type = "birthday" /\ emails[j].type = "anniversary") => i < j

\* C19 (as claimed): in both batch runners emails are sent only after all
\* employees have been processed, the birthday send is attempted before
\* the anniversary one, and a failed birthday send does not keep the
\* anniversary send from being attempted in the same run.
C19_BirthdayFailureNeverBlocksAnniversary ==
    caller \in BatchCallers =>
      /\ SendAfterLoopBirthdayFirst
      /\ FailedSend("birthday")
           => /\ pc \in {"send_anniversary", "done"} \/ EmailsOf("anniversary") # << >>
              /\ (pc \in {"done", "crashed"} /\ Sendable("anniversary"))
                   => Len(EmailsOf("anniversary")) = 1

\* C19 (amended): in both batch runners emails are sent only after all
\* employees have been processed and the birthday send is attempted before
\* the anniversary one.  In app.page_send a failed birthday send does not
\* keep the anniversary send from being attempted; in daily_run.main the
\* exception of a failed birthday send is not caught: it ends the run and
\* the anniversary send is not attempted.
C19_OnlyPageSendIsolatesSends ==
    caller \in BatchCallers =>
      /\ SendAfterLoopBirthdayFirst
      /\ (caller = "page_send" /\ FailedSend("birthday"))
           => /\ pc \in {"send_anniversary", "done"}
              /\ (pc = "done" /\ Sendable("anniversary"))
                   => Len(EmailsOf("anniversary")) = 1
      /\ (caller = "daily_run" /\ FailedSend("birthday"))
           => pc = "crashed" /\ EmailsOf("anniversary") = << >>
      /\ caller = "page_send" => pc # "crashed"

C19_Witness ==
    /\ caller = "page_send"
    /\ pc = "done"
    /\ Len(emails) = 2
    /\ emails[1].type = "birthday" /\ ~emails[1].sent
    /\ emails[2].type = "anniversary" /\ emails[2].sent

\* C20: send_birthday_emails and send_anniversary_emails open no SMTP
\* session when the poster list or the `to` list is empty; otherwise each
\* call makes exactly one send_email call, for one message addressed to
\* to + cc that carries every poster of the type, in the order generated.
C20_OneEmailOrNone ==
    \A t \in Types :
      LET es == EmailsOf(t)
          rc == cfg.recipients[t]
          called == IF t = "birthday" THEN pc \in {"send_anniversary", "done"}
                    ELSE pc = "done"
      IN  /\ Len(es) <= 1
          /\ ~Sendable(t) => es = << >>
          /\ (called /\ Sendable(t)) => Len(es) = 1
          /\ \A k \in 1..Len(es) :
               /\ es[k].rcpt = rc.to \o rc.cc
               /\ es[k].attachments = Posters(t)
               /\ \A i, j \in 1..Len(es[k].attachments) :
                    i < j => es[k].attachments[i] < es[k].attachments[j]
               /\ \A i \in 1..Len(employees) :
                    Count(es[k].attachments, i)
                      = Count(Posters(t), i)

\* one birthday poster to hr and ceo, then two anniversary posters to hr
C20_Witness ==
    /\ caller = "daily_run"
    /\ pc = "done"
    /\ Len(emails) = 2
    /\ emails[1] = [type |-> "birthday", rcpt |-> <<"hr@corp", "ceo@corp">>,
                    attachments |-> << 1 >>, sent |-> TRUE]
    /\ emails[2] = [type |-> "anniversary", rcpt |-> <<"hr@corp">>,
                    attachments |-> << 1, 2 >>, sent |-> TRUE]

=============================================================================
